---- MODULE Spec2Model ----
(***************************************************************************)
(* Model of the odometry-ingestion core of openRTK330-lib:                 *)
(*   src/Platform/CAN/src/car_data.c          signal decoder and readout   *)
(*   src/Platform/OpenRTK330LI/Driver/src/exit.c   PPS pulse handler       *)
(*                                                                         *)
(* Representation.                                                         *)
(*  - A 64-bit integer (int64_t value) is the set of the bit positions     *)
(*    0..63 that are 1 in its two's-complement pattern.                    *)
(*  - A double is an exact rational <<n, d>> in lowest terms, d > 0.       *)
(*  - A timestamp (seconds, double) is a whole number of milliseconds.     *)
(*  - The payload is a sequence of 8 bytes, data[k] of the code being      *)
(*    data[k + 1] here.                                                    *)
(***************************************************************************)
EXTENDS Integers, Sequences, FiniteSets, TLC

VARIABLES
    gOdoConfigurationStruct, \* the signal table and the gear references
    wheel_speed,             \* WHEEL_SPEED_STRUCT wheel_speed
    g_MCU_time,              \* the time base, [time, msec]
    gps_start_week,          \* extern int32_t gps_start_week
    g_obs_rcv_time,          \* the latched time base, [time, msec]
    pps,                     \* usCnt, htim_sensor's CNT, dataAcqSem
    dec,                     \* car_can_data_process: position and locals
    rd,                      \* car_get_wheel_speed: caller's outputs, return
    reported,                \* history: roles decoded since the last sample was taken
    ex,                      \* the field-extraction loop run on its own
    hist                     \* history: what the handlers have done so far

vars == <<gOdoConfigurationStruct, wheel_speed, g_MCU_time, gps_start_week,
          g_obs_rcv_time, pps, dec, rd, reported, ex, hist>>

(***************************************************************************)
(* Integer helpers                                                         *)
(***************************************************************************)
RECURSIVE Pow2(_)
Pow2(n) == IF n = 0 THEN 1 ELSE 2 * Pow2(n - 1)

\* The set of bits that are 1 in the byte (or small natural) n.
BitsOf(n) == {b \in 0..7 : (n \div Pow2(b)) % 2 = 1}

Word64 == 0..63

\* int -> int64_t conversion of a 32-bit pattern: sign extension.
SignExt32(bits) == IF 31 \in bits THEN bits \cup (32..63) ELSE bits

\* (int)chunk << s, then widened to int64_t.  For s < 32 the bits shifted
\* past bit 31 are lost.  For s >= 32 the shift is undefined: the outcomes
\* are 0 (shifter that saturates) and a shift by s mod 32 (shifter that
\* masks the count).
ShlIntMasked(chunk, s) ==
    SignExt32({b + s : b \in BitsOf(chunk)} \cap (0..31))

ShlInt(chunk, s) ==
    IF s < 32 THEN {ShlIntMasked(chunk, s)}
    ELSE {{}, ShlIntMasked(chunk, s % 32)}

RECURSIVE AddBits(_, _, _, _)
AddBits(a, b, k, c) ==
    IF k > 63 THEN {}
    ELSE LET s == (IF k \in a THEN 1 ELSE 0) + (IF k \in b THEN 1 ELSE 0) + c
         IN  (IF s % 2 = 1 THEN {k} ELSE {}) \cup AddBits(a, b, k + 1, s \div 2)

\* int64_t arithmetic, wrapping.
Add64(a, b) == AddBits(a, b, 0, 0)
Neg64(a) == Add64(Word64 \ a, {0})
Sub64(a, b) == Add64(a, Neg64(b))

(***************************************************************************)
(* Signal descriptors: gOdoConfigurationStruct.odo_mesg[i]                 *)
(***************************************************************************)
USAGE_ENABLED == 85    \* 0x55

\* The two checks that make car_can_data_process skip a descriptor.
RangeInvalid(d) ==
    \/ d.startbit >= 64
    \/ d.length > 64
    \/ d.length = 0
    \/ d.endian >= 2
    \/ d.sign >= 2
    \/ d.unit > 2
    \/ d.source > 3

LayoutInvalidLittleOnly(d) ==
    IF d.endian = 0 THEN d.startbit + d.length > 64 ELSE FALSE
LayoutInvalid(d) ==
    IF d.endian = 0
    THEN d.startbit + d.length > 64
    ELSE (((d.startbit \div 8) + 1) * 8 - (d.startbit % 8)) < d.length

DescriptorValid(d) == ~RangeInvalid(d) /\ ~LayoutInvalid(d)

(***************************************************************************)
(* The field-extraction loop                                               *)
(***************************************************************************)
\* A read of data[k]; outside the 8 payload bytes the read is out of bounds
\* and may yield any byte, of which two are kept.
DataAt(data, k) == IF k \in 0..7 THEN {data[k + 1]} ELSE {0, 255}

\* The locals on entry to the while loop.
LoopInit(d) ==
    [value           |-> {},
     index_byte      |-> d.startbit \div 8,
     index_bitofbyte |-> d.startbit % 8,
     bitlen          |-> d.length,
     bitlent         |-> d.length]

LastBitOfByteZero(L) == 0
LastBitOfByte(L) ==
    IF L.index_bitofbyte + L.bitlen >= 8 THEN 0
    ELSE 8 - (L.index_bitofbyte + L.bitlen)

\* (data[index_byte] >> index_bitofbyte) & (0xff >> lastbitofbyte)
Chunk(byte, L) ==
    (byte \div Pow2(L.index_bitofbyte)) % Pow2(8 - LastBitOfByte(L))

\* One iteration of the while loop: the set of states it can end in.
\* bitlen and index_byte are uint8_t.
LoopBody(L, data, endian) ==
    {[value           |-> L.value \cup piece,
      index_byte      |-> IF endian = 0 THEN (L.index_byte + 1) % 256
                                        ELSE (L.index_byte + 255) % 256,
      index_bitofbyte |-> 0,
      bitlen          |-> (L.bitlen + 256
                            - (8 - L.index_bitofbyte - LastBitOfByte(L))) % 256,
      bitlent         |-> L.bitlent] :
        piece \in UNION {ShlInt(Chunk(byte, L), L.bitlent - L.bitlen) :
                           byte \in DataAt(data, L.index_byte)}}

RECURSIVE LoopRun(_, _, _)
LoopRun(L, data, endian) ==
    IF L.bitlen > 0
    THEN UNION {LoopRun(n, data, endian) : n \in LoopBody(L, data, endian)}
    ELSE {L.value}

\* if (sign == 1) { if (value & (1 << (bitlent - 1))) value = -(value - (1 << ...)); }
SignStep(value, sign, bitlent) ==
    IF sign = 1
    THEN {IF value \cap m # {} THEN Neg64(Sub64(value, m)) ELSE value :
              m \in ShlInt(1, bitlent - 1)}
    ELSE {value}

\* The decoded integers a descriptor can yield on a payload.
DecodeValue(d, data) ==
    UNION {SignStep(raw, d.sign, d.length) :
              raw \in LoopRun(LoopInit(d), data, d.endian)}

(***************************************************************************)
(* The extraction run on its own: inputs                                   *)
(***************************************************************************)
MaxStartBit == 64      \* start bits tried: 0..MaxStartBit
MaxBitLength == 65     \* bit lengths tried: 0..MaxBitLength

\* Position of bit k of a field in the payload, as <<byte, bit>>: the field
\* starts at bit (startbit % 8) of byte (startbit / 8) with its least
\* significant bit, fills that byte upwards and goes on at bit 0 of the next
\* byte (little-endian) or of the previous byte (big-endian).
FieldIndex(d, byte, bit) ==
    LET B == d.startbit \div 8
        o == d.startbit % 8
    IN  IF d.endian = 0
        THEN 8 * byte + bit - d.startbit
        ELSE IF byte = B THEN bit - o
             ELSE IF byte < B THEN (8 - o) + 8 * (B - 1 - byte) + bit
             ELSE -1

\* The payload holding the integer v (a set of bits) in the field of d and
\* the bit bg everywhere else.
RECURSIVE ByteOf(_, _, _, _, _)
ByteOf(d, v, bg, byte, bit) ==
    IF bit > 7 THEN 0
    ELSE LET k == FieldIndex(d, byte, bit)
             on == IF k >= 0 /\ k < d.length THEN k \in v ELSE bg = 1
         IN  (IF on THEN Pow2(bit) ELSE 0) + ByteOf(d, v, bg, byte, bit + 1)

Encode(d, v, bg) == [j \in 1..8 |-> ByteOf(d, v, bg, j - 1, 0)]

\* The integers encoded: all ones, and every other bit.
Patterns(len) == {0..(len - 1), {k \in 0..(len - 1) : k % 2 = 0}}

ExDescriptor(sb, len, en, sg) ==
    [usage |-> USAGE_ENABLED, mesgID |-> 0, startbit |-> sb, length |-> len,
     endian |-> en, sign |-> sg, unit |-> 2, source |-> 2,
     factor |-> <<1, 1>>, offset |-> <<0, 1>>]

ExIdle ==
    [pc |-> "idle", d |-> ExDescriptor(0, 0, 0, 0), data |-> [j \in 1..8 |-> 0],
     enc |-> {}, loop |-> LoopInit(ExDescriptor(0, 0, 0, 0)), value |-> {}]

ExInputs ==
    {[pc |-> "input", d |-> ExDescriptor(sb, len, en, sg),
      data |-> [j \in 1..8 |-> 0], enc |-> {},
      loop |-> LoopInit(ExDescriptor(0, 0, 0, 0)), value |-> {}] :
        sb \in 0..MaxStartBit, len \in 0..MaxBitLength, en \in 0..1, sg \in 0..1}

(***************************************************************************)
(* Doubles, as exact rationals <<n, d>>                                    *)
(***************************************************************************)
RECURSIVE Gcd(_, _)
Gcd(a, b) == IF b = 0 THEN a ELSE Gcd(b, a % b)

Abs(x) == IF x < 0 THEN -x ELSE x

Rat(n, d) ==
    LET g == Gcd(Abs(n), Abs(d))
        s == IF d < 0 THEN -1 ELSE 1
    IN  <<(s * n) \div g, (s * d) \div g>>

RatAdd(a, b) == Rat(a[1] * b[2] + b[1] * a[2], a[2] * b[2])
RatMul(a, b) == Rat(a[1] * b[1], a[2] * b[2])

RECURSIVE SumBits(_)
SumBits(S) ==
    IF S = {} THEN 0
    ELSE LET b == CHOOSE x \in S : TRUE IN Pow2(b) + SumBits(S \ {b})

\* The integer an int64_t pattern stands for (magnitudes below 2^31).
ToInt(S) == IF 63 \in S THEN -(SumBits(Word64 \ S) + 1) ELSE SumBits(S)

\* svalue = (value + offset) * factor
Physical(d, value) == RatMul(RatAdd(<<ToInt(value), 1>>, d.offset), d.factor)

\* unit 0: svalue / 3.6;  unit 1: svalue * 0.44704;  unit 2: unchanged
UnitConvert(unit, svalue) ==
    IF unit = 0 THEN RatMul(svalue, <<5, 18>>)
    ELSE IF unit = 1 THEN RatMul(svalue, <<1397, 3125>>)
    ELSE svalue

(***************************************************************************)
(* What one descriptor does to wheel_speed                                 *)
(***************************************************************************)
\* source == 3: the gear selector
GearUpdateReverseFirst(ws, svalue, gears) ==
    IF svalue = gears[2] THEN [ws EXCEPT !.fwd = 0]
    ELSE IF svalue = gears[1] THEN [ws EXCEPT !.fwd = 1]
    ELSE IF svalue = gears[3] THEN [ws EXCEPT !.fwd = 1]
    ELSE IF svalue = gears[4] THEN [ws EXCEPT !.fwd = 1]
    ELSE ws
GearUpdateCountsAsReport(ws, svalue, gears) ==
    IF svalue = gears[1] THEN [ws EXCEPT !.fwd = 1, !.update = 4]
    ELSE IF svalue = gears[2] THEN [ws EXCEPT !.fwd = 0, !.update = 4]
    ELSE IF svalue = gears[3] THEN [ws EXCEPT !.fwd = 1, !.update = 4]
    ELSE IF svalue = gears[4] THEN [ws EXCEPT !.fwd = 1, !.update = 4]
    ELSE ws
GearUpdate(ws, svalue, gears) ==
    IF svalue = gears[1] THEN [ws EXCEPT !.fwd = 1]
    ELSE IF svalue = gears[2] THEN [ws EXCEPT !.fwd = 0]
    ELSE IF svalue = gears[3] THEN [ws EXCEPT !.fwd = 1]
    ELSE IF svalue = gears[4] THEN [ws EXCEPT !.fwd = 1]
    ELSE ws

\* wheel_speed.update |= 1 << source, for source in 0..2
OrBit(update, source) ==
    IF (update \div Pow2(source)) % 2 = 1 THEN update ELSE update + Pow2(source)

\* source 0, 1, 2: a speed report
SpeedUpdateOverwritesMask(ws, d, svalue, week, timestamp) ==
    LET v == UnitConvert(d.unit, svalue)
        w1 == IF d.source = 0 THEN [ws EXCEPT !.speed_RR = v]
              ELSE IF d.source = 1 THEN [ws EXCEPT !.speed_RL = v]
              ELSE IF d.source = 2 THEN [ws EXCEPT !.speed_combined = v]
              ELSE ws
    IN  [w1 EXCEPT !.update = Pow2(d.source),
                   !.week = week, !.timestamp = timestamp]
SpeedUpdate(ws, d, svalue, week, timestamp) ==
    LET v == UnitConvert(d.unit, svalue)
        w1 == IF d.source = 0 THEN [ws EXCEPT !.speed_RR = v]
              ELSE IF d.source = 1 THEN [ws EXCEPT !.speed_RL = v]
              ELSE IF d.source = 2 THEN [ws EXCEPT !.speed_combined = v]
              ELSE ws
    IN  [w1 EXCEPT !.update = OrBit(ws.update, d.source),
                   !.week = week, !.timestamp = timestamp]

\* The body of the for loop for descriptor d: the states it can leave
\* wheel_speed in.
ApplyDescriptorIgnoresUsage(ws, d, gears, stdId, data, week, timestamp) ==
    IF d.mesgID # stdId THEN {ws}
    ELSE IF ~DescriptorValid(d) THEN {ws}
    ELSE {IF d.source = 3
          THEN GearUpdate(ws, Physical(d, value), gears)
          ELSE SpeedUpdate(ws, d, Physical(d, value), week, timestamp) :
              value \in DecodeValue(d, data)}
ApplyDescriptorGearAsSpeed(ws, d, gears, stdId, data, week, timestamp) ==
    IF d.usage # USAGE_ENABLED \/ d.mesgID # stdId THEN {ws}
    ELSE IF ~DescriptorValid(d) THEN {ws}
    ELSE {SpeedUpdate(ws, d, Physical(d, value), week, timestamp) :
              value \in DecodeValue(d, data)}
ApplyDescriptor(ws, d, gears, stdId, data, week, timestamp) ==
    IF d.usage # USAGE_ENABLED \/ d.mesgID # stdId THEN {ws}
    ELSE IF ~DescriptorValid(d) THEN {ws}
    ELSE {IF d.source = 3
          THEN GearUpdate(ws, Physical(d, value), gears)
          ELSE SpeedUpdate(ws, d, Physical(d, value), week, timestamp) :
              value \in DecodeValue(d, data)}

(***************************************************************************)
(* The time resolver and the readout                                       *)
(***************************************************************************)
WeekSeconds == 604800

TruncDiv(a, b) == IF a >= 0 THEN a \div b ELSE -((-a) \div b)

\* time2gpst(time, &week) on time.time = t.time, time.sec = t.msec / 1000,
\* with t.time counted from the GPS epoch; the time of week is in ms.
time2gpst(t) ==
    LET w == TruncDiv(t.time, WeekSeconds)
    IN  [week |-> w, timestamp |-> (t.time - w * WeekSeconds) * 1000 + t.msec]

\* if (gps_start_week == -1 || timestamp < 0.0) return;
DeclinedBothNeeded(start_week, timestamp) == start_week = -1 /\ timestamp < 0
Declined(start_week, timestamp) == start_week = -1 \/ timestamp < 0

\* (speed_RR + speed_RL) * 0.5
Average(a, b) == RatMul(RatAdd(a, b), <<1, 2>>)

\* if (wheel_speed.update >= 3)
SampleReadyAnyBit(ws) == ws.update >= 1
SampleReadyAllThree(ws) == ws.update >= 7
SampleReady(ws) == ws.update >= 3

\* The value left in *car_speed: the average, the combined speed, or what
\* the location held.
FusedSpeedCombinedFirst(ws, out) ==
    IF (ws.update \div 4) % 2 # 0 THEN ws.speed_combined
    ELSE IF ws.update % 4 = 3 THEN Average(ws.speed_RR, ws.speed_RL)
    ELSE out.car_speed
FusedSpeed(ws, out) ==
    IF ws.update % 4 = 3 THEN Average(ws.speed_RR, ws.speed_RL)
    ELSE IF (ws.update \div 4) % 2 # 0 THEN ws.speed_combined
    ELSE out.car_speed

\* wheel_speed.update = 0;
ClearUpdateOmitted(ws) == ws
ClearUpdateAndGear(ws) == [ws EXCEPT !.update = 0, !.fwd = 1]
ClearUpdate(ws) == [ws EXCEPT !.update = 0]

\* return 0;
EmptyReadoutWritesTime(ws, out) ==
    [ret |-> 0, ws |-> ws,
     out |-> [out EXCEPT !.week = ws.week, !.timestamp = ws.timestamp]]
EmptyReadout(ws, out) == [ret |-> 0, ws |-> ws, out |-> out]

\* car_get_wheel_speed: the outputs and the state it leaves, given the
\* state and the caller's four locations.
car_get_wheel_speed(ws, out) ==
    IF SampleReady(ws)
    THEN [ret |-> 1,
          ws  |-> ClearUpdate(ws),
          out |-> [week      |-> ws.week,
                   timestamp |-> ws.timestamp,
                   fwd       |-> ws.fwd,
                   car_speed |-> FusedSpeed(ws, out)]]
    ELSE EmptyReadout(ws, out)

(***************************************************************************)
(* Configurations and frames                                               *)
(***************************************************************************)
Descriptor(us, id, sb, len, en, sg, un, src, fac, off) ==
    [usage |-> us, mesgID |-> id, startbit |-> sb, length |-> len,
     endian |-> en, sign |-> sg, unit |-> un, source |-> src,
     factor |-> fac, offset |-> off]

ID_WHEEL == 256     \* 0x100
ID_SPEED == 180     \* 0x0B4
ID_GEAR == 956      \* 0x3BC

\* Rear wheel speeds as 16-bit fields, (raw - 6767) * 0.01 km/h: big-endian
\* in bytes 4-5 and 6-7, or rear right little-endian in bytes 0-1.
DescRRLittle(id) == Descriptor(USAGE_ENABLED, id, 0, 16, 0, 0, 0, 0, <<1, 100>>, <<-6767, 1>>)
DescRR(id) == Descriptor(USAGE_ENABLED, id, 40, 16, 1, 0, 0, 0, <<1, 100>>, <<-6767, 1>>)
DescRL(id) == Descriptor(USAGE_ENABLED, id, 56, 16, 1, 0, 0, 1, <<1, 100>>, <<-6767, 1>>)
\* Vehicle speed as a signed 12-bit little-endian field, 0.1 mph.
DescCombined(id) == Descriptor(USAGE_ENABLED, id, 8, 12, 0, 1, 1, 2, <<1, 10>>, <<0, 1>>)
\* Gear position as a 4-bit field.
DescGear(id) == Descriptor(USAGE_ENABLED, id, 0, 4, 0, 0, 2, 3, <<1, 1>>, <<0, 1>>)
\* A table slot that is not in use.
DescUnused == Descriptor(0, ID_WHEEL, 40, 16, 1, 0, 0, 0, <<1, 100>>, <<-6767, 1>>)

\* Gear references: drive, reverse, and two more; in the second table the
\* reverse value is also the first reference.
GearsReverse == <<<<0, 1>>, <<1, 1>>, <<1, 1>>, <<3, 1>>>>
GearsShadowed == <<<<1, 1>>, <<1, 1>>, <<0, 1>>, <<0, 1>>>>

Config(d1, d2, d3, g) == [odo_mesg |-> <<d1, d2, d3>>, gears |-> g]

\* The configurations of the main specification.
Configs ==
    {Config(DescRR(ID_WHEEL), DescRL(ID_WHEEL), DescGear(ID_GEAR), GearsShadowed),
     Config(DescUnused, DescGear(ID_SPEED), DescCombined(ID_SPEED), GearsReverse),
     Config(DescRRLittle(ID_WHEEL), DescRL(ID_SPEED), DescCombined(ID_GEAR), GearsReverse)}

StdIds == {ID_WHEEL, ID_SPEED, ID_GEAR}

Payloads ==
    {<<0, 20, 0, 0, 26, 175, 26, 211>>,
     <<1, 250, 15, 0, 26, 111, 26, 175>>,
     <<175, 26, 128, 0, 26, 175, 26, 211>>}

(***************************************************************************)
(* Initial state                                                           *)
(***************************************************************************)
ZeroData == [j \in 1..8 |-> 0]

\* car_can_initialize: memset 0, fwd = 1
car_can_initialize ==
    [speed_RR |-> <<0, 1>>, speed_RL |-> <<0, 1>>, speed_combined |-> <<0, 1>>,
     fwd |-> 1, update |-> 0, week |-> 0, timestamp |-> 0]

\* The decoder when it is not running.  start_time is its copy of the time
\* base and first the field of it that is copied first.
DecIdle ==
    [pc |-> "idle", i |-> 0, stdId |-> 0, data |-> ZeroData,
     week |-> 0, timestamp |-> 0,
     start_time |-> [time |-> 0, msec |-> 0], first |-> "time"]

\* The caller's four output locations before a call: values the readout
\* never writes.
OutBefore == [car_speed |-> <<-1, 1>>, fwd |-> 2, week |-> -1, timestamp |-> -1]

RdIdle == [pc |-> "idle", ret |-> 0, out |-> OutBefore]

\* The pulse handler's globals before the first pulse: the semaphore
\* dataAcqSem exists (sem = 1) or not (sem = 0) and holds no release.
PpsInit(sem) == [usCnt |-> 0, CNT |-> 0, dataAcqSem |-> 0, sem |-> sem]

\* The history kept of a behaviour, by what is being recorded (on):
\* "pulse" records the runs of the pulse handler (their number modulo 2 and,
\* for the last run, its pin level PPSstate, what get_gnss_signal_flag and
\* get_obs_time returned, and its calls of release_sem, rel) and the values
\* the time base has had while the decoder was copying it (held); "frames"
\* records whether a frame has been declined; "readout" records, for the
\* call of the readout in progress, the values wheel_speed has had since the
\* call began (seen), the frames decoded since then (frames) and the roles
\* reported since the readout last read wheel_speed (late); "off" records
\* nothing.
HistInit(on) ==
    [on |-> on, runs |-> 0, PPSstate |-> 1, flag |-> 0, obs |-> 0, rel |-> 0,
     declined |-> 0, held |-> {}, seen |-> {}, frames |-> 0, late |-> {}]

NoteCopy(h, t) == IF h.on = "pulse" THEN [h EXCEPT !.held = {t}] ELSE h

NoteEnter(h, gone) ==
    IF h.on = "pulse" THEN [h EXCEPT !.held = {}]
    ELSE IF h.on = "frames" /\ gone THEN [h EXCEPT !.declined = 1]
    ELSE h

NoteTime(h, d, t) ==
    IF h.on = "pulse" /\ d.pc = "copy" THEN [h EXCEPT !.held = h.held \cup {t}]
    ELSE h

NotePulse(h, d, PPSstate, flag, obs, rel, t) ==
    IF h.on = "pulse"
    THEN [NoteTime(h, d, t) EXCEPT !.runs = (h.runs + 1) % 2,
                                   !.PPSstate = PPSstate, !.flag = flag,
                                   !.obs = obs, !.rel = rel]
    ELSE h

InitCommon ==
    /\ wheel_speed = car_can_initialize
    /\ g_MCU_time = [time |-> 0, msec |-> 0]
    /\ g_obs_rcv_time = [time |-> 0, msec |-> 0]
    /\ gps_start_week = -1
    /\ pps = PpsInit(1)
    /\ dec = DecIdle
    /\ rd = RdIdle
    /\ reported = {}
    /\ hist = HistInit("off")

Init ==
    /\ gOdoConfigurationStruct \in Configs
    /\ InitCommon
    /\ ex = ExIdle

(***************************************************************************)
(* The decoder: car_can_data_process(stdId, data)                          *)
(***************************************************************************)
timeVars == <<g_MCU_time, gps_start_week, g_obs_rcv_time, pps>>

\* Line 48, first half: start_time = g_MCU_time copies a structure of two
\* fields, one after the other in an order the build chooses; the field
\* named first has been copied.
FrameCopy(first) ==
    /\ dec.pc = "idle"
    /\ rd.pc = "idle"
    /\ dec' = [dec EXCEPT
                 !.pc = "copy", !.first = first,
                 !.start_time = IF first = "time"
                                THEN [time |-> g_MCU_time.time, msec |-> 0]
                                ELSE [time |-> 0, msec |-> g_MCU_time.msec]]
    /\ hist' = NoteCopy(hist, g_MCU_time)
    /\ UNCHANGED <<gOdoConfigurationStruct, wheel_speed, timeVars, rd, reported, ex>>

\* The copy of the time base once its second field has been copied.
StartTime(d, t) ==
    IF d.first = "time" THEN [d.start_time EXCEPT !.msec = t.msec]
    ELSE [d.start_time EXCEPT !.time = t.time]

\* Lines 48-54: the other field is copied and the time resolved; the frame
\* is declined ("ret") or the for loop is entered ("for").  The arguments
\* stdId and data of the call are first used from here on.
FrameEnter(stdId, data) ==
    /\ dec.pc = "copy"
    /\ LET st == StartTime(dec, g_MCU_time)
           r == time2gpst(st)
           gone == Declined(gps_start_week, r.timestamp)
       IN  /\ dec' = [dec EXCEPT
                        !.pc = IF gone THEN "ret" ELSE "for",
                        !.stdId = stdId, !.data = data,
                        !.i = 0, !.week = r.week, !.timestamp = r.timestamp,
                        !.start_time = st, !.first = "time"]
           /\ hist' = NoteEnter(hist, gone)
    /\ UNCHANGED <<gOdoConfigurationStruct, wheel_speed, timeVars, rd, reported, ex>>

\* The descriptor of the current iteration adds a speed report.
Reports(d, stdId) ==
    /\ d.usage = USAGE_ENABLED
    /\ d.mesgID = stdId
    /\ DescriptorValid(d)
    /\ d.source # 3

\* Lines 66-154: one iteration of the for loop; the function returns after
\* the third.
FrameStep ==
    /\ dec.pc = "for"
    /\ LET d == gOdoConfigurationStruct.odo_mesg[dec.i + 1]
       IN  /\ wheel_speed' \in ApplyDescriptor(wheel_speed, d,
                                   gOdoConfigurationStruct.gears,
                                   dec.stdId, dec.data, dec.week, dec.timestamp)
           /\ reported' = IF Reports(d, dec.stdId)
                          THEN reported \cup {d.source} ELSE reported
    /\ dec' = IF dec.i + 1 < 3 THEN [dec EXCEPT !.i = dec.i + 1] ELSE DecIdle
    /\ UNCHANGED <<gOdoConfigurationStruct, timeVars, rd, ex, hist>>

\* Line 53: return of a declined frame.
FrameDeclined ==
    /\ dec.pc = "ret"
    /\ dec' = DecIdle
    /\ UNCHANGED <<gOdoConfigurationStruct, wheel_speed, timeVars, rd, reported, ex,
                   hist>>

(***************************************************************************)
(* The readout: car_get_wheel_speed(&car_speed, &fwd, &week, &timestamp)   *)
(***************************************************************************)
\* The call, up to its return statement.
Readout ==
    /\ dec.pc = "idle"
    /\ rd.pc = "idle"
    /\ LET r == car_get_wheel_speed(wheel_speed, rd.out)
       IN  /\ wheel_speed' = r.ws
           /\ rd' = [pc |-> "ret", ret |-> r.ret, out |-> r.out]
    /\ UNCHANGED <<gOdoConfigurationStruct, timeVars, dec, reported, ex, hist>>

\* The caller takes the result; its locations go out of scope.
ReadoutReturn ==
    /\ rd.pc = "ret"
    /\ rd' = RdIdle
    /\ reported' = IF rd.ret = 1 THEN {} ELSE reported
    /\ UNCHANGED <<gOdoConfigurationStruct, wheel_speed, timeVars, dec, ex, hist>>

(***************************************************************************)
(* The pulse handler: ST_PPS_IRQ                                           *)
(***************************************************************************)
SemMax == 1        \* dataAcqSem is a binary semaphore
ObsTimes == {-1, WeekSeconds}

\* release_sem(dataAcqSem)
release_sem(count) == IF count < SemMax THEN count + 1 ELSE count

\* Line 67: the branch taken for pin level PPSstate.
FallingAnyLevel(PPSstate) == TRUE
Falling(PPSstate) == PPSstate = 0

\* Lines 69-77: the calls of release_sem a falling edge makes.
ReleasedAlways(p, msec) == IF p.sem # 0 THEN 1 ELSE 0
Released(p, msec) == IF msec < 500 /\ p.sem # 0 THEN 1 ELSE 0

\* Lines 79 and 84: usCnt = 0; htim_sensor.Instance->CNT = 0;
FallingResetKeepsCount(p) == [p EXCEPT !.CNT = 0]
FallingReset(p) == [p EXCEPT !.usCnt = 0, !.CNT = 0]

\* Lines 85-87: the anchor after a falling edge; msec is 500 by line 83.
AnchorIgnoresLatch(t, latched, flag, obs) == IF flag # 0 THEN obs ELSE t.time
Anchor(t, latched, flag, obs) ==
    IF flag # 0 /\ 500 - latched.msec >= 0 /\ t.time = latched.time
    THEN obs ELSE t.time

\* The handler run with pin level PPSstate, with
\* get_gnss_signal_flag() = flag and get_obs_time() = obs.  The interrupt
\* has the higher priority: it runs while the decoder is idle or between
\* the decoder's two reads of the time base.
ST_PPS_IRQ(PPSstate, flag, obs) ==
    /\ dec.pc \in {"idle", "copy"}
    /\ rd.pc = "idle"
    /\ IF Falling(PPSstate)
       THEN /\ pps' = [FallingReset(pps) EXCEPT
                         !.dataAcqSem =
                             IF Released(pps, g_MCU_time.msec) = 1
                             THEN release_sem(pps.dataAcqSem)
                             ELSE pps.dataAcqSem]
            /\ g_MCU_time' =
                 [msec |-> 500,
                  time |-> Anchor(g_MCU_time, g_obs_rcv_time, flag, obs)]
       ELSE UNCHANGED <<pps, g_MCU_time>>
    /\ hist' = NotePulse(hist, dec, PPSstate, flag, obs,
                         IF Falling(PPSstate)
                         THEN Released(pps, g_MCU_time.msec) ELSE 0,
                         g_MCU_time')
    /\ UNCHANGED <<gOdoConfigurationStruct, wheel_speed, gps_start_week,
                   g_obs_rcv_time, dec, rd, reported, ex>>

(***************************************************************************)
(* The environment of the three handlers                                   *)
(***************************************************************************)
MsecStep == 500    \* the millisecond counter advances in steps of MsecStep
MaxMsec == 500     \* and is followed until it reaches MaxMsec

\* The timer interrupt advances the counters; like the pulse interrupt it
\* can run between the decoder's two reads of the time base.
TimerTick ==
    /\ dec.pc \in {"idle", "copy"}
    /\ rd.pc = "idle"
    /\ g_MCU_time.msec < MaxMsec
    /\ g_MCU_time' = [g_MCU_time EXCEPT !.msec = g_MCU_time.msec + MsecStep]
    /\ pps' = [pps EXCEPT !.usCnt = 1, !.CNT = 1]
    /\ hist' = NoteTime(hist, dec, g_MCU_time')
    /\ UNCHANGED <<gOdoConfigurationStruct, wheel_speed, gps_start_week,
                   g_obs_rcv_time, dec, rd, reported, ex>>

\* The GNSS receiver sets or loses the start week.
SetStartWeek(w) ==
    /\ dec.pc = "idle"
    /\ rd.pc = "idle"
    /\ gps_start_week # w
    /\ gps_start_week' = w
    /\ UNCHANGED <<gOdoConfigurationStruct, wheel_speed, g_MCU_time,
                   g_obs_rcv_time, pps, dec, rd, reported, ex, hist>>

Firsts == {"time", "msec"}

Next ==
    \/ \E first \in Firsts : FrameCopy(first)
    \/ \E stdId \in StdIds, data \in Payloads : FrameEnter(stdId, data)
    \/ FrameStep
    \/ FrameDeclined
    \/ Readout
    \/ ReadoutReturn
    \/ \E PPSstate \in 0..1, flag \in 0..1, obs \in ObsTimes :
           ST_PPS_IRQ(PPSstate, flag, obs)
    \/ TimerTick
    \/ \E w \in {-1, 0} : SetStartWeek(w)

Spec == Init /\ [][Next]_vars

(***************************************************************************)
(* The extraction run on its own: one descriptor, one payload              *)
(***************************************************************************)
mainVars ==
    <<gOdoConfigurationStruct, wheel_speed, timeVars, dec, rd, reported, hist>>

InitExtract ==
    /\ gOdoConfigurationStruct \in
           {Config(DescUnused, DescUnused, DescUnused, GearsReverse)}
    /\ InitCommon
    /\ ex \in ExInputs

\* Lines 70-99: the validity checks, then the locals of the loop; the
\* payload holds the integer enc in the field and bg around it.
ExBegin(bg) ==
    /\ ex.pc = "input"
    /\ IF DescriptorValid(ex.d)
       THEN \E v \in Patterns(ex.d.length) :
              ex' = [ex EXCEPT !.pc = "while", !.enc = v,
                               !.data = Encode(ex.d, v, bg),
                               !.loop = LoopInit(ex.d)]
       ELSE ex' = [ex EXCEPT !.pc = "skipped"]
    /\ UNCHANGED mainVars

\* Lines 101-111: one iteration.
ExLoop ==
    /\ ex.pc = "while"
    /\ ex.loop.bitlen > 0
    /\ \E n \in LoopBody(ex.loop, ex.data, ex.d.endian) :
           ex' = [ex EXCEPT !.loop = n]
    /\ UNCHANGED mainVars

\* Lines 113-117: the sign.
ExSign ==
    /\ ex.pc = "while"
    /\ ex.loop.bitlen = 0
    /\ \E v \in SignStep(ex.loop.value, ex.d.sign, ex.loop.bitlent) :
           ex' = [ex EXCEPT !.pc = "done", !.value = v]
    /\ UNCHANGED mainVars

NextExtract ==
    \/ \E bg \in 0..1 : ExBegin(bg)
    \/ ExLoop
    \/ ExSign

SpecExtract == InitExtract /\ [][NextExtract]_vars

(***************************************************************************)
(* The decoder on tables with one malformed descriptor                     *)
(***************************************************************************)
\* The ways a descriptor fails the checks of lines 70-87, one per condition.
Malformed(d) ==
    {[d EXCEPT !.startbit = 64, !.length = 1],
     [d EXCEPT !.length = 0],
     [d EXCEPT !.length = 65, !.startbit = 0],
     [d EXCEPT !.endian = 2],
     [d EXCEPT !.sign = 2],
     [d EXCEPT !.unit = 3],
     [d EXCEPT !.source = 4],
     [d EXCEPT !.endian = 0, !.startbit = 60, !.length = 8],
     [d EXCEPT !.endian = 1, !.startbit = 3, !.length = 16]}

\* Three descriptors of the same message, one of them malformed.
MalformedConfigs ==
    LET t == <<DescRR(ID_WHEEL), DescRL(ID_WHEEL), DescGear(ID_WHEEL)>>
    IN  UNION {{[odo_mesg |-> [t EXCEPT ![k] = m], gears |-> GearsReverse] :
                   m \in Malformed(t[k])} : k \in 1..3}

InitDecode ==
    /\ gOdoConfigurationStruct \in MalformedConfigs
    /\ InitCommon
    /\ ex = ExIdle

NextDecode ==
    \/ \E first \in Firsts : FrameCopy(first)
    \/ \E stdId \in StdIds, data \in Payloads : FrameEnter(stdId, data)
    \/ FrameStep
    \/ FrameDeclined
    \/ \E w \in {-1, 0} : SetStartWeek(w)

SpecDecode == InitDecode /\ [][NextDecode]_vars

(***************************************************************************)
(* The handlers on the table of three speed roles, declined frames noted   *)
(***************************************************************************)
InitRecover ==
    /\ gOdoConfigurationStruct
           \in {Config(DescRRLittle(ID_WHEEL), DescRL(ID_SPEED),
                       DescCombined(ID_GEAR), GearsReverse)}
    /\ wheel_speed = car_can_initialize
    /\ g_MCU_time = [time |-> 0, msec |-> 0]
    /\ g_obs_rcv_time = [time |-> 0, msec |-> 0]
    /\ gps_start_week = -1
    /\ pps = PpsInit(1)
    /\ dec = DecIdle
    /\ rd = RdIdle
    /\ reported = {}
    /\ ex = ExIdle
    /\ hist = HistInit("frames")

SpecRecover == InitRecover /\ [][Next]_vars

(***************************************************************************)
(* The readout preempted by the decoder                                    *)
(*                                                                         *)
(* The readout runs statement by statement, in the polling context; a call *)
(* of the decoder, in the bus-receive context, runs from its first to its  *)
(* last statement between two statements of the readout.                   *)
(***************************************************************************)
MaxPreempt == 1        \* frames decoded during one call of the readout

PreemptIds == {ID_WHEEL, ID_SPEED}

PreemptPayloads ==
    {<<0, 20, 0, 0, 26, 175, 26, 211>>,
     <<1, 250, 15, 0, 26, 111, 26, 175>>}

\* car_can_data_process(stdId, data) from its first to its last statement:
\* the states it can leave wheel_speed in, ws being the state and t the time
\* base it finds.
car_can_data_process(ws, cfg, t, start_week, stdId, data) ==
    LET r == time2gpst(t)
        Step(W, k) == UNION {ApplyDescriptor(w, cfg.odo_mesg[k], cfg.gears,
                                             stdId, data, r.week, r.timestamp) :
                                w \in W}
    IN  IF Declined(start_week, r.timestamp) THEN {ws}
        ELSE Step(Step(Step({ws}, 1), 2), 3)

\* The roles a frame reports.
RolesOf(cfg, stdId) ==
    {cfg.odo_mesg[k].source : k \in {j \in 1..3 : Reports(cfg.odo_mesg[j], stdId)}}

\* A frame is decoded: before a call of the readout, or between two of its
\* statements.
CanReceive(stdId, data) ==
    /\ dec.pc = "idle"
    /\ rd.pc # "ret"
    /\ rd.pc # "idle" => hist.frames < MaxPreempt
    /\ wheel_speed' \in car_can_data_process(wheel_speed, gOdoConfigurationStruct,
                                             g_MCU_time, gps_start_week,
                                             stdId, data)
    /\ LET roles == IF Declined(gps_start_week, time2gpst(g_MCU_time).timestamp)
                    THEN {}
                    ELSE RolesOf(gOdoConfigurationStruct, stdId)
       IN  /\ reported' = reported \cup roles
           /\ hist' = IF rd.pc = "idle" THEN hist
                      ELSE [hist EXCEPT
                              !.seen = hist.seen \cup {wheel_speed'},
                              !.frames = hist.frames + 1,
                              !.late = IF rd.pc = "l173"
                                       THEN hist.late \cup roles ELSE hist.late]
    /\ UNCHANGED <<gOdoConfigurationStruct, timeVars, dec, rd, ex>>

\* Line 159: if (wheel_speed.update >= 3), and line 177 if not.
RdTest ==
    /\ dec.pc = "idle"
    /\ rd.pc = "idle"
    /\ rd' = IF SampleReady(wheel_speed)
             THEN [rd EXCEPT !.pc = "l164"]
             ELSE [pc  |-> "ret",
                   ret |-> EmptyReadout(wheel_speed, rd.out).ret,
                   out |-> EmptyReadout(wheel_speed, rd.out).out]
    /\ hist' = [hist EXCEPT !.seen = {wheel_speed}, !.frames = 0, !.late = {}]
    /\ UNCHANGED <<gOdoConfigurationStruct, wheel_speed, timeVars, dec, reported, ex>>

\* Line 164: *week = wheel_speed.week;
RdWeek ==
    /\ rd.pc = "l164"
    /\ rd' = [rd EXCEPT !.pc = "l165", !.out.week = wheel_speed.week]
    /\ UNCHANGED <<gOdoConfigurationStruct, wheel_speed, timeVars, dec, reported, ex,
                   hist>>

\* Line 165: *timestamp = wheel_speed.timestamp;
RdTimestamp ==
    /\ rd.pc = "l165"
    /\ rd' = [rd EXCEPT !.pc = "l166", !.out.timestamp = wheel_speed.timestamp]
    /\ UNCHANGED <<gOdoConfigurationStruct, wheel_speed, timeVars, dec, reported, ex,
                   hist>>

\* Line 166: *fwd = wheel_speed.fwd;
RdFwd ==
    /\ rd.pc = "l166"
    /\ rd' = [rd EXCEPT !.pc = "l167", !.out.fwd = wheel_speed.fwd]
    /\ UNCHANGED <<gOdoConfigurationStruct, wheel_speed, timeVars, dec, reported, ex,
                   hist>>

\* Lines 167-171: the if statement that writes *car_speed.
RdSpeed ==
    /\ rd.pc = "l167"
    /\ rd' = [rd EXCEPT !.pc = "l173",
                        !.out.car_speed = FusedSpeed(wheel_speed, rd.out)]
    /\ hist' = [hist EXCEPT !.late = {}]
    /\ UNCHANGED <<gOdoConfigurationStruct, wheel_speed, timeVars, dec, reported, ex>>

\* Lines 173-174: wheel_speed.update = 0; return 1;
RdClear ==
    /\ rd.pc = "l173"
    /\ wheel_speed' = ClearUpdate(wheel_speed)
    /\ rd' = [rd EXCEPT !.pc = "ret", !.ret = 1]
    /\ UNCHANGED <<gOdoConfigurationStruct, timeVars, dec, reported, ex, hist>>

InitPreempt ==
    /\ gOdoConfigurationStruct
           \in {Config(DescRR(ID_WHEEL), DescRL(ID_WHEEL), DescCombined(ID_SPEED),
                       GearsReverse)}
    /\ wheel_speed = car_can_initialize
    /\ g_MCU_time = [time |-> 0, msec |-> 0]
    /\ g_obs_rcv_time = [time |-> 0, msec |-> 0]
    /\ gps_start_week = 0
    /\ pps = PpsInit(1)
    /\ dec = DecIdle
    /\ rd = RdIdle
    /\ reported = {}
    /\ ex = ExIdle
    /\ hist = HistInit("readout")

NextPreempt ==
    \/ \E stdId \in PreemptIds, data \in PreemptPayloads : CanReceive(stdId, data)
    \/ RdTest
    \/ RdWeek
    \/ RdTimestamp
    \/ RdFwd
    \/ RdSpeed
    \/ RdClear
    \/ ReadoutReturn
    \/ TimerTick

SpecPreempt == InitPreempt /\ [][NextPreempt]_vars

(***************************************************************************)
(* The time base: the pulse handler, the timer, the receiver, the decoder  *)
(***************************************************************************)
MaxTime == 1           \* the timer carries into time while time < MaxTime
ObsMsecs == {0, 750}   \* milliseconds at which an observation is latched

\* The timer interrupt at the end of a second: msec wraps and time advances.
TimerWrap ==
    /\ dec.pc \in {"idle", "copy"}
    /\ g_MCU_time.msec >= MaxMsec
    /\ g_MCU_time.time < MaxTime
    /\ g_MCU_time' = [time |-> g_MCU_time.time + 1, msec |-> 0]
    /\ hist' = NoteTime(hist, dec, g_MCU_time')
    /\ UNCHANGED <<gOdoConfigurationStruct, wheel_speed, gps_start_week,
                   g_obs_rcv_time, pps, dec, rd, reported, ex>>

\* The receiver latches the time base on an observation, msec into the
\* second.
ObsReceive(msec) ==
    /\ dec.pc = "idle"
    /\ g_obs_rcv_time # [time |-> g_MCU_time.time, msec |-> msec]
    /\ g_obs_rcv_time' = [time |-> g_MCU_time.time, msec |-> msec]
    /\ UNCHANGED <<gOdoConfigurationStruct, wheel_speed, g_MCU_time,
                   gps_start_week, pps, dec, rd, reported, ex, hist>>

\* The data-acquisition task takes the semaphore.
TakeSem ==
    /\ dec.pc = "idle"
    /\ pps.dataAcqSem > 0
    /\ pps' = [pps EXCEPT !.dataAcqSem = pps.dataAcqSem - 1]
    /\ UNCHANGED <<gOdoConfigurationStruct, wheel_speed, g_MCU_time,
                   gps_start_week, g_obs_rcv_time, dec, rd, reported, ex, hist>>

InitPulse ==
    /\ gOdoConfigurationStruct
           \in {Config(DescUnused, DescUnused, DescUnused, GearsReverse)}
    /\ wheel_speed = car_can_initialize
    /\ g_MCU_time = [time |-> 0, msec |-> 0]
    /\ g_obs_rcv_time = [time |-> 0, msec |-> 0]
    /\ gps_start_week = 0
    /\ pps \in {PpsInit(0), PpsInit(1)}
    /\ dec = DecIdle
    /\ rd = RdIdle
    /\ reported = {}
    /\ ex = ExIdle
    /\ hist = HistInit("pulse")

NextPulse ==
    \/ \E PPSstate \in 0..1, flag \in 0..1, obs \in ObsTimes :
           ST_PPS_IRQ(PPSstate, flag, obs)
    \/ TimerTick
    \/ TimerWrap
    \/ \E msec \in ObsMsecs : ObsReceive(msec)
    \/ TakeSem
    \/ \E first \in Firsts : FrameCopy(first)
    \/ FrameEnter(ID_WHEEL, ZeroData)
    \/ FrameStep
    \/ FrameDeclined

SpecPulse == InitPulse /\ [][NextPulse]_vars

(***************************************************************************)
(* Properties                                                              *)
(***************************************************************************)
Bit(n, b) == (n \div Pow2(b)) % 2 = 1

\* A step that is a call of the readout, and one that is an iteration of the
\* decoder's for loop on the descriptor CurDesc.
IsReadoutStep == rd.pc = "idle" /\ rd'.pc = "ret"
IsFrameEnter == dec.pc = "copy" /\ dec'.pc # "copy"
CurDesc == gOdoConfigurationStruct.odo_mesg[dec.i + 1]
Matches(d) == d.usage = USAGE_ENABLED /\ d.mesgID = dec.stdId

SpeedField(ws, source) ==
    IF source = 0 THEN ws.speed_RR
    ELSE IF source = 1 THEN ws.speed_RL
    ELSE ws.speed_combined

\* C1 as stated: a readout returns nothing whenever fewer than two of the
\* three speed-role bits of updateMask are set.
C1_NothingBelowTwoRoles ==
    [][(IsReadoutStep
        /\ Cardinality({b \in 0..2 : Bit(wheel_speed.update, b)}) < 2)
       => rd'.ret = 0]_vars

\* C1 amended: a readout returns nothing exactly when the combined bit is
\* clear and at most one of the rearRight and rearLeft bits is set, that is
\* when updateMask is 0, 1 or 2; the combined bit alone yields a sample.
C1_NothingBelowThree ==
    [][IsReadoutStep
       => (rd'.ret = 0 <=>
             /\ ~Bit(wheel_speed.update, 2)
             /\ ~(Bit(wheel_speed.update, 0) /\ Bit(wheel_speed.update, 1)))]_vars

\* Only one rear role has reported since the last sample and the readout
\* returned nothing.
C1_Witness ==
    /\ rd.pc = "ret" /\ rd.ret = 0
    /\ reported \in {{0}, {1}}
    /\ wheel_speed.update \in {1, 2}

\* C2: a returned sample carries the average of the two rear speeds when
\* both rear bits are set, else the combined speed when the combined bit is
\* set, and the forward flag, week and timestamp of the state.
C2_FusionPriority ==
    [][(IsReadoutStep /\ rd'.ret = 1)
       => LET u == wheel_speed.update
              o == rd'.out
              both == Bit(u, 0) /\ Bit(u, 1)
          IN  /\ both => RatAdd(o.car_speed, o.car_speed)
                           = RatAdd(wheel_speed.speed_RR, wheel_speed.speed_RL)
              /\ (~both /\ Bit(u, 2)) => o.car_speed = wheel_speed.speed_combined
              /\ o.fwd = wheel_speed.fwd
              /\ o.week = wheel_speed.week
              /\ o.timestamp = wheel_speed.timestamp]_vars

\* All three roles had reported, with a combined speed that differs from the
\* average returned.
C2_Witness ==
    /\ rd.pc = "ret" /\ rd.ret = 1
    /\ reported = {0, 1, 2}
    /\ rd.out.car_speed # wheel_speed.speed_combined
    /\ rd.out.car_speed # wheel_speed.speed_RR
    /\ rd.out.timestamp > 0

\* C3: a readout that returns a sample leaves updateMask 0, and a readout
\* with no speed report decoded since the last sample returns nothing.
C3_ConsumeOnce ==
    [][IsReadoutStep
       => /\ rd'.ret = 1 => wheel_speed'.update = 0
          /\ reported = {} => rd'.ret = 0]_vars

\* A readout returned nothing after an earlier one took the only sample.
C3_Witness ==
    /\ rd.pc = "ret" /\ rd.ret = 0
    /\ reported = {}
    /\ wheel_speed.update = 0
    /\ wheel_speed.speed_combined # <<0, 1>>

\* C4: a readout that returns nothing changes no field of wheel_speed and
\* none of the caller's four output locations.
C4_EmptyPathNoOp ==
    [][(IsReadoutStep /\ rd'.ret = 0)
       => /\ wheel_speed' = wheel_speed
          /\ rd'.out = rd.out]_vars

\* A readout returned nothing while one rear speed was waiting.
C4_Witness ==
    /\ rd.pc = "ret" /\ rd.ret = 0
    /\ wheel_speed.update = 2
    /\ wheel_speed.speed_RL # <<0, 1>>
    /\ rd.out = OutBefore

\* C5: a frame handed over while the start week is -1 or the resolved time
\* of week is negative is declined and changes nothing in wheel_speed.
C5_TimeGating ==
    [][/\ (IsFrameEnter /\ (gps_start_week = -1 \/ dec'.timestamp < 0))
            => (dec'.pc = "ret" /\ wheel_speed' = wheel_speed)
       /\ dec.pc = "ret" => (dec'.pc = "idle" /\ wheel_speed' = wheel_speed)]_vars

\* A frame with an enabled, valid, matching speed descriptor was declined
\* for the start week alone, with reports waiting in wheel_speed.
C5_Witness ==
    /\ dec.pc = "ret"
    /\ gps_start_week = -1
    /\ dec.timestamp >= 0
    /\ wheel_speed.update # 0
    /\ \E k \in 1..3 :
          LET d == gOdoConfigurationStruct.odo_mesg[k]
          IN  Matches(d) /\ DescriptorValid(d) /\ d.source # 3

\* C6 as stated: for every valid descriptor, in both byte orders, the
\* extraction loop run on a payload that holds an unsigned integer of
\* bitLength bits in the field yields exactly that integer.
C6_RoundTrip ==
    (ex.pc \in {"while", "done"} /\ ex.loop.bitlen = 0)
        => ex.loop.value = ex.enc

\* C7 as stated: a signed field whose raw value has bit (bitLength - 1) set
\* decodes to -(raw - 2^(bitLength - 1)), a value of
\* -(2^(bitLength - 1) - 1)..0; any other field decodes to raw.
C7_SignExtension ==
    ex.pc = "done"
        => LET raw == ex.loop.value
               top == ex.d.length - 1
           IN  IF ex.d.sign = 1 /\ top \in raw
               THEN /\ ex.value = Neg64(raw \ {top})
                    /\ (raw \ {top}) \subseteq 0..(top - 1)
               ELSE ex.value = raw

\* The physical value (value + offset) * scale of an integer.
ClaimPhysical(d, value) ==
    RatMul(RatAdd(<<ToInt(value), 1>>, d.offset), d.factor)

\* v is the physical value phys in metres per second.
ClaimConverted(d, phys, v) ==
    IF d.unit = 0 THEN RatMul(v, <<36, 10>>) = phys
    ELSE IF d.unit = 1 THEN v = RatMul(phys, <<44704, 100000>>)
    ELSE v = phys

\* The descriptor fails a validity condition.
ClaimInvalid(d) ==
    \/ d.startbit >= 64
    \/ d.length = 0 \/ d.length > 64
    \/ d.endian \notin {0, 1}
    \/ d.sign \notin {0, 1}
    \/ d.unit \notin {0, 1, 2}
    \/ d.source \notin {0, 1, 2, 3}
    \/ d.endian = 0 /\ d.startbit + d.length > 64
    \/ d.endian = 1 /\ d.length > 8 * (d.startbit \div 8) + (8 - (d.startbit % 8))

\* C8: an enabled, valid, matching descriptor of a speed role writes the
\* converted value into the speed field of its role, sets that role's bit in
\* updateMask and keeps the other bits, stamps week and timestamp with the
\* values resolved for the frame, and leaves the other two speeds and the
\* forward flag as they were.
C8_SpeedRouting ==
    [][(dec.pc = "for" /\ Matches(CurDesc) /\ ~ClaimInvalid(CurDesc)
        /\ CurDesc.source \in 0..2)
       => LET d == CurDesc
          IN  /\ \E value \in DecodeValue(d, dec.data) :
                    ClaimConverted(d, ClaimPhysical(d, value),
                                   SpeedField(wheel_speed', d.source))
              /\ \A b \in 0..7 :
                    Bit(wheel_speed'.update, b)
                        <=> (Bit(wheel_speed.update, b) \/ b = d.source)
              /\ wheel_speed'.week = dec.week
              /\ wheel_speed'.timestamp = dec.timestamp
              /\ \A s \in (0..2) \ {d.source} :
                    SpeedField(wheel_speed', s) = SpeedField(wheel_speed, s)
              /\ wheel_speed'.fwd = wheel_speed.fwd]_vars

\* The little-endian rear-right descriptor has just decoded raw 6831 into
\* 0.64 km/h = 8/45 m/s, with the rear-left bit already set and kept.
C8_Witness ==
    /\ dec.pc = "for" /\ dec.i = 1
    /\ gOdoConfigurationStruct.odo_mesg[1] = DescRRLittle(ID_WHEEL)
    /\ dec.stdId = ID_WHEEL
    /\ wheel_speed.speed_RR = <<8, 45>>
    /\ wheel_speed.update = 3
    /\ wheel_speed.timestamp = dec.timestamp
    /\ wheel_speed.timestamp > 0

\* C9: a valid matching gear descriptor sets forward by the first of the
\* four references, tested in order, that equals the physical value: true
\* for the first, third and fourth, false for the second; no match leaves it.
C9_GearSelector ==
    [][(dec.pc = "for" /\ Matches(CurDesc) /\ ~ClaimInvalid(CurDesc)
        /\ CurDesc.source = 3)
       => \E value \in DecodeValue(CurDesc, dec.data) :
            LET phys == ClaimPhysical(CurDesc, value)
                hits == {k \in 1..4 : gOdoConfigurationStruct.gears[k] = phys}
                first == CHOOSE k \in hits : \A j \in hits : k <= j
            IN  wheel_speed'.fwd =
                    IF hits = {} THEN wheel_speed.fwd
                    ELSE IF first = 2 THEN 0 ELSE 1]_vars

\* The gear descriptor, second in the table, has just decoded the reverse
\* reference, which is also the third reference.
C9_Witness ==
    /\ dec.pc = "for" /\ dec.i = 2
    /\ gOdoConfigurationStruct.odo_mesg[2].source = 3
    /\ Matches(gOdoConfigurationStruct.odo_mesg[2])
    /\ gOdoConfigurationStruct.gears[2] = gOdoConfigurationStruct.gears[3]
    /\ ClaimPhysical(gOdoConfigurationStruct.odo_mesg[2], BitsOf(dec.data[1] % 16))
           = gOdoConfigurationStruct.gears[2]
    /\ wheel_speed.fwd = 0

\* C10: an enabled matching descriptor that fails a validity condition
\* changes nothing; the loop goes on to the next descriptor; and a valid
\* speed descriptor of the same frame still records its report.
C10_InvalidSkipped ==
    [][dec.pc = "for"
       => LET d == CurDesc
          IN  /\ (Matches(d) /\ ClaimInvalid(d)) => wheel_speed' = wheel_speed
              /\ dec.i < 2 => (dec'.pc = "for" /\ dec'.i = dec.i + 1
                               /\ dec'.stdId = dec.stdId /\ dec'.data = dec.data)
              /\ (Matches(d) /\ ~ClaimInvalid(d) /\ d.source \in 0..2)
                   => /\ Bit(wheel_speed'.update, d.source)
                      /\ \E value \in DecodeValue(d, dec.data) :
                            ClaimConverted(d, ClaimPhysical(d, value),
                                SpeedField(wheel_speed', d.source))]_vars

\* The first descriptor of the table, rear right, is malformed and left no
\* trace; the second, rear left, of the same frame has been applied.
C10_Witness ==
    /\ dec.pc = "for" /\ dec.i = 2
    /\ Matches(gOdoConfigurationStruct.odo_mesg[1])
    /\ ClaimInvalid(gOdoConfigurationStruct.odo_mesg[1])
    /\ Matches(gOdoConfigurationStruct.odo_mesg[2])
    /\ wheel_speed.update = 2
    /\ wheel_speed.speed_RR = <<0, 1>>
    /\ wheel_speed.speed_RL # <<0, 1>>

\* C11: a frame whose message id matches no enabled descriptor leaves
\* wheel_speed as it was, on entry and in each iteration of the for loop,
\* whatever its payload.
C11_UnmatchedFrame ==
    [][/\ IsFrameEnter => wheel_speed' = wheel_speed
       /\ (dec.pc = "for"
           /\ \A k \in 1..3 : ~Matches(gOdoConfigurationStruct.odo_mesg[k]))
            => wheel_speed' = wheel_speed]_vars

\* An admitted frame has passed the first descriptor, which has the frame's
\* id and a valid layout but is not enabled, and matches no other, while a
\* report was waiting in wheel_speed.
C11_Witness ==
    /\ dec.pc = "for" /\ dec.i >= 1
    /\ \A k \in 1..3 : ~Matches(gOdoConfigurationStruct.odo_mesg[k])
    /\ gOdoConfigurationStruct.odo_mesg[1].mesgID = dec.stdId
    /\ DescriptorValid(gOdoConfigurationStruct.odo_mesg[1])
    /\ wheel_speed.update # 0

\* A step that is a run of the pulse handler, for a falling or a rising
\* transition.
IsPulse == hist'.runs # hist.runs
IsFalling == IsPulse /\ hist'.PPSstate = 0
IsRising == IsPulse /\ hist'.PPSstate # 0

\* C12: after a run of the pulse handler for a falling transition the
\* millisecond counter is 500 and the microsecond counter (usCnt, and the
\* timer's CNT) is 0, whatever they were, whatever the signal-valid flag and
\* whether or not the latch guard holds.
C12_FallingReset ==
    [][IsFalling
       => /\ g_MCU_time'.msec = 500
          /\ pps'.usCnt = 0
          /\ pps'.CNT = 0]_vars

\* A falling edge has reset the counters from other values (the counter was
\* below 500, so the semaphore was released) with the flag clear.
C12_Witness ==
    /\ hist.runs = 1 /\ hist.PPSstate = 0
    /\ hist.rel = 1 /\ hist.flag = 0
    /\ g_MCU_time.msec = 500
    /\ pps.usCnt = 0

\* C13 as stated: on a falling transition the semaphore is released, once,
\* exactly when the millisecond counter read before the reset is below 500.
C13_WakeUpBelow500 ==
    [][IsFalling => (hist'.rel = 1 <=> g_MCU_time.msec < 500)]_vars

\* C13 amended: on a falling transition the semaphore is released, by one
\* call of release_sem, exactly when the counter read before the reset is
\* below 500 and the semaphore exists; otherwise its count is left alone.
C13_WakeUpIfCreated ==
    [][IsFalling
       => /\ hist'.rel = 1 <=> (g_MCU_time.msec < 500 /\ pps.sem # 0)
          /\ hist'.rel = 1 => pps'.dataAcqSem = release_sem(pps.dataAcqSem)
          /\ hist'.rel = 0 => pps'.dataAcqSem = pps.dataAcqSem]_vars

\* The second of two falling edges with no counter advance between them:
\* the first released the semaphore, which is still pending, and this one
\* did not.
C13_Witness ==
    /\ hist.runs = 0 /\ hist.PPSstate = 0
    /\ hist.rel = 0
    /\ pps.sem # 0
    /\ pps.dataAcqSem = 1
    /\ pps.usCnt = 0
    /\ g_MCU_time.msec = 500

\* C14: a falling run replaces the anchor g_MCU_time.time by the value of
\* get_obs_time() if the signal-valid flag is set, the time base's msec
\* (500 by then) minus the latched msec is not negative and the anchor
\* equals the latched time, and keeps the anchor otherwise; the counters
\* are reset either way.
C14_LatchGuard ==
    [][IsFalling
       => /\ g_MCU_time'.time =
                IF /\ hist'.flag # 0
                   /\ g_MCU_time'.msec - g_obs_rcv_time.msec >= 0
                   /\ g_MCU_time.time = g_obs_rcv_time.time
                THEN hist'.obs ELSE g_MCU_time.time
          /\ g_MCU_time'.msec = 500
          /\ pps'.usCnt = 0]_vars

\* A falling run with the flag set and the anchor equal to the latched time
\* kept the anchor, because the observation was latched after msec 500.
C14_Witness ==
    /\ hist.runs = 1 /\ hist.PPSstate = 0
    /\ hist.flag = 1
    /\ g_obs_rcv_time.msec > 500
    /\ g_MCU_time.time = g_obs_rcv_time.time
    /\ hist.obs # g_MCU_time.time
    /\ g_MCU_time.msec = 500

\* C15: a run for a rising transition leaves the time base, the counters
\* and the semaphore as they were and makes no call of release_sem.
C15_RisingNoOp ==
    [][IsRising
       => /\ g_MCU_time' = g_MCU_time
          /\ pps' = pps
          /\ hist'.rel = 0]_vars

\* A rising run, with the flag set, has left msec below 500 and the counters
\* running.
C15_Witness ==
    /\ hist.runs = 1 /\ hist.PPSstate = 1
    /\ hist.flag = 1
    /\ g_MCU_time.msec < 500
    /\ g_MCU_time.time = g_obs_rcv_time.time
    /\ pps.usCnt = 1
    /\ pps.sem # 0 /\ pps.dataAcqSem = 0

\* C16 as stated: the copy of the time base the decoder stamps a frame with
\* is a value the time base has had at one instant while the copy was made.
C16_ConsistentSnapshot ==
    [][IsFrameEnter => dec'.start_time \in hist.held]_vars

\* The iterations of the while loop made so far: the bytes it has moved by.
Iterations(e) ==
    IF e.d.endian = 0
    THEN (256 + e.loop.index_byte - (e.d.startbit \div 8)) % 256
    ELSE (256 + (e.d.startbit \div 8) - e.loop.index_byte) % 256

\* C17: for a descriptor that passes the checks, each iteration of the
\* extraction loop takes at least one and at most eight bits off the
\* remaining-bit counter, which never wraps below 0, and the loop makes at
\* most 8 iterations: the counter is a variant that brings the loop, and
\* with it the call, to its end.
C17_Termination ==
    [][(ex.pc = "while" /\ ex.loop.bitlen > 0)
       => /\ ex'.pc = "while"
          /\ ex.loop.bitlen - ex'.loop.bitlen \in 1..8
          /\ ex'.loop.bitlen \in 0..64
          /\ Iterations(ex') <= 8]_vars

\* A field that starts inside a byte has been extracted in 8 iterations.
C17_Witness ==
    /\ ex.pc = "done"
    /\ ex.loop.bitlen = 0
    /\ ex.d.startbit % 8 # 0
    /\ Iterations(ex) = 8

\* C18 as stated: the raw value extracted for a valid descriptor is the one
\* extracted from any payload that holds the same bits in the field,
\* whatever the bits around the field are.
C18_FieldIsolation ==
    (ex.pc = "while" /\ ex.loop.bitlen = 0)
        => \A bg \in 0..1 :
              ex.loop.value \in LoopRun(LoopInit(ex.d),
                                        Encode(ex.d, ex.enc, bg), ex.d.endian)

\* C19 as stated: for a valid descriptor of more than 32 bits every chunk
\* lands at its place in the 64-bit accumulator, so that the raw value is
\* the integer held in the field, and the sign test and the sign formula
\* use 2^(bitLength - 1).
C19_WideFields ==
    (ex.d.length > 32 /\ ex.pc \in {"while", "done"} /\ ex.loop.bitlen = 0)
        => /\ ex.loop.value = ex.enc
           /\ ex.pc = "done"
                => LET top == ex.d.length - 1
                   IN  ex.value = IF ex.d.sign = 1 /\ top \in ex.enc
                                  THEN Neg64(ex.enc \ {top})
                                  ELSE ex.enc

\* C20: whatever frames were declined before, a readout returns a sample
\* once a rear-right and a rear-left report, or a combined report, have
\* been decoded since the last sample was taken.
C20_Recovery ==
    [][(IsReadoutStep /\ ({0, 1} \subseteq reported \/ 2 \in reported))
       => rd'.ret = 1]_vars

\* After a declined frame, and then one rear-right and one rear-left frame
\* admitted, the readout has returned their average.
C20_Witness ==
    /\ hist.declined = 1
    /\ rd.pc = "ret" /\ rd.ret = 1
    /\ reported = {0, 1}
    /\ RatAdd(rd.out.car_speed, rd.out.car_speed)
           = RatAdd(wheel_speed.speed_RR, wheel_speed.speed_RL)
    /\ wheel_speed.speed_RR # <<0, 1>>
    /\ wheel_speed.speed_RL # <<0, 1>>

\* C23: for a descriptor that passes the checks, in either byte order, each
\* iteration of the extraction loop reads the payload at a byte index in
\* 0..7; the index is outside 0..7 (8 after the last byte, or wrapped below
\* 0) only when no bit remains, and then no read follows.
C23_PayloadBounds ==
    ex.pc = "while" =>
        /\ ex.loop.bitlen > 0 => ex.loop.index_byte \in 0..7
        /\ ex.loop.index_byte \notin 0..7 =>
               /\ ex.loop.bitlen = 0
               /\ ex.loop.index_byte = IF ex.d.endian = 0 THEN 8 ELSE 255

\* A big-endian field that ends in byte 0 has been read to its last bit and
\* the index has stepped below 0.
C23_Witness ==
    /\ ex.pc = "while"
    /\ ex.d.endian = 1
    /\ ex.d.length > 8
    /\ ex.loop.bitlen = 0
    /\ ex.loop.index_byte = 255

\* An iteration of the for loop on an enabled, valid gear descriptor of the
\* frame's message.
IsGearStep ==
    /\ dec.pc = "for"
    /\ Matches(CurDesc)
    /\ DescriptorValid(CurDesc)
    /\ CurDesc.source = 3

\* C24: in every state reached from initialization by frames, pulse edges
\* and readouts, updateMask is in 0..7: no bit above bit 2 is ever set, by a
\* gear descriptor (role code 3) or otherwise.
C24_UpdateRange == wheel_speed.update \in 0..7

\* A gear descriptor has just been applied to a frame, with the combined
\* bit set by an earlier frame: updateMask is 4, bit 3 is clear.
C24_Witness ==
    /\ dec.pc = "for" /\ dec.i = 2
    /\ gOdoConfigurationStruct.odo_mesg[2].source = 3
    /\ Matches(gOdoConfigurationStruct.odo_mesg[2])
    /\ wheel_speed.update = 4
    /\ wheel_speed.fwd = 0

\* C25: whenever the readout returns a sample, both rear bits are set or
\* the combined bit is set, so that the speed output is written: it is the
\* average or the combined speed and not the value the location held.
C25_SpeedAssigned ==
    [][(IsReadoutStep /\ rd'.ret = 1) =>
          /\ wheel_speed.update % 4 = 3 \/ Bit(wheel_speed.update, 2)
          /\ rd'.out.car_speed \in
                 {Average(wheel_speed.speed_RR, wheel_speed.speed_RL),
                  wheel_speed.speed_combined}
          /\ rd'.out.car_speed # rd.out.car_speed]_vars

\* A sample has been returned on the combined bit and one rear bit, the
\* smallest mask above 3 without both rear bits.
C25_Witness ==
    /\ rd.pc = "ret" /\ rd.ret = 1
    /\ reported = {0, 2}
    /\ rd.out.car_speed = wheel_speed.speed_combined
    /\ rd.out.car_speed # OutBefore.car_speed

\* C26: applying a gear descriptor changes at most the forward flag:
\* updateMask, the three speeds, week and timestamp keep their values, and
\* a readout returns a sample after it only if it did before.
C26_GearNoReport ==
    [][IsGearStep =>
          /\ wheel_speed' = [wheel_speed EXCEPT !.fwd = wheel_speed'.fwd]
          /\ SampleReady(wheel_speed') = SampleReady(wheel_speed)
          /\ reported' = reported]_vars

\* A gear descriptor has just switched forward to false on a frame decoded
\* before any report: the mask is 0 and the other fields are as initialized.
C26_Witness ==
    /\ dec.pc = "for" /\ dec.i = 2
    /\ gOdoConfigurationStruct.odo_mesg[2].source = 3
    /\ Matches(gOdoConfigurationStruct.odo_mesg[2])
    /\ reported = {}
    /\ wheel_speed.fwd = 0
    /\ wheel_speed.update = 0
    /\ wheel_speed.week = 0 /\ wheel_speed.timestamp = 0
    /\ wheel_speed.speed_RR = <<0, 1>> /\ wheel_speed.speed_RL = <<0, 1>>
    /\ wheel_speed.speed_combined = <<0, 1>>

\* C27: a readout that returns a sample changes no field of wheel_speed
\* other than updateMask: the three speeds, forward, week and timestamp keep
\* their values.
C27_OnlyMaskCleared ==
    [][(IsReadoutStep /\ rd'.ret = 1) =>
          wheel_speed' = [wheel_speed EXCEPT !.update = wheel_speed'.update]]_vars

\* A sample has been returned in reverse gear: forward is still false and
\* the combined speed is still stored.
C27_Witness ==
    /\ rd.pc = "ret" /\ rd.ret = 1
    /\ wheel_speed.update = 0
    /\ wheel_speed.fwd = 0
    /\ rd.out.fwd = 0
    /\ wheel_speed.speed_combined # <<0, 1>>
    /\ rd.out.car_speed = wheel_speed.speed_combined

\* The sample the readout would return if it ran on the state ws without
\* being interrupted.
SampleOf(ws) == car_get_wheel_speed(ws, OutBefore).out

\* C21 as stated: a sample returned by a readout that the decoder has
\* preempted is the sample of one of the values wheel_speed has had during
\* the call: speed, forward, week and timestamp all come from one instant.
C21_UntornSample ==
    [][(rd.pc = "l173" /\ rd'.pc = "ret") =>
          \E ws \in hist.seen : SampleReady(ws) /\ rd'.out = SampleOf(ws)]_vars

\* C22 as stated: the readout clears from updateMask no bit of a report
\* that was written after the sample it returns had been computed.
C22_NoLostReport ==
    [][(rd.pc = "l173" /\ rd'.pc = "ret") =>
          \A r \in hist.late : ~Bit(wheel_speed.update, r)]_vars

====
